---- MODULE Spec2Model ----
(***************************************************************************)
(* Model of the stateless stock-watchlist API (src/app.py): the in-memory  *)
(* cache, the cached price / news readers, the watchlist builder and the   *)
(* refresh route, run by concurrent request threads.                       *)
(*                                                                         *)
(* Numbers are scaled integers.  A return r is carried in basis points     *)
(* (r = rb / 10000, rounded down), the average sentiment in hundredths,    *)
(* news_impact in tenths, momentum in ten-thousandths, risk and the        *)
(* turnaround bonus in hundredths and final_score in hundred-thousandths,  *)
(* so every product of the scoring formula is exact.  A price series is    *)
(* carried by the quantities the score reads from it: the number of usable *)
(* closes, the 1, 5 and 20 day returns and the standard deviation of the   *)
(* last 30 one-day returns (series_stats computes them from the closes).   *)
(* A news list is carried by its length and the average sentiment.         *)
(* watchlist_by and watchlist_ts_by record the worker thread whose call    *)
(* wrote the watchlist and the one whose call wrote its timestamp; stale   *)
(* marks a call whose fetch or build was under way when a refresh          *)
(* returned.                                                               *)
(*                                                                         *)
(* A request is a sequence of steps of a worker thread: the reads and      *)
(* writes of the shared cache and the upstream calls are separate steps,   *)
(* so that the requests of a thread pool interleave.  Spec serves every    *)
(* route with one worker, SpecBuild and SpecReads serve only the watchlist *)
(* and only the price / news routes, SpecPool serves overlapping requests. *)
(*                                                                         *)
(* The batch jobs (src/ingest_prices.py, src/score.py) work on the tables  *)
(* of src/models.py, held in db; job is the position of the running job.   *)
(* SpecIngest runs the price ingestion, SpecScoreJob the scoring job with  *)
(* the stored prices and articles of a ticker supplied as the closes and   *)
(* sentiments its queries return.  SpecFetch applies the row loop of       *)
(* fetch_yahoo_prices to one chart payload.  SpecScore applies the two scoring *)
(* implementations to one input, held in calc: a list of closes and a list *)
(* of article sentiments.                                                  *)
(***************************************************************************)
EXTENDS Integers, Sequences, FiniteSets, TLC

VARIABLES cache, th, clock, left, pool, NEWSAPI_KEY, REFRESH_TOKEN, db, job, calc

vars == <<cache, th, clock, left, pool, NEWSAPI_KEY, REFRESH_TOKEN, db, job, calc>>

(***************************************************************************)
(* Bounds of the model.                                                    *)
(***************************************************************************)
NumTickers == 2
NumThreads == 2
MaxTicks == 2
MaxRequests == 3
MaxBuilds == 2
MaxReads == 2
MaxOverlapRequests == 2
MaxRetries == 2
MaxIngests == 2
MaxScoreRuns == 2
MaxBars == 3
MaxNewsReads == 3

(***************************************************************************)
(* Program constants.                                                      *)
(***************************************************************************)
CACHE_TTL_SEC == 1
MIN_CLOSES == 25
RISK_CLOSES == 31

Threads == 1..NumThreads

\* tickers.UNIVERSE: the ordered list of distinct tickers
UNIVERSE == [i \in 1..NumTickers |-> i]

\* time.time() at start-up: far beyond one TTL after the epoch (ts 0.0)
StartTime == CACHE_TTL_SEC + 1

Min(a, b) == IF a <= b THEN a ELSE b
Max(a, b) == IF a >= b THEN a ELSE b

\* dict assignment d[k] = v
Put(d, k, v) == [x \in (DOMAIN d) \cup {k} |-> IF x = k THEN v ELSE d[x]]

\* an empty dict
EmptyDict == [x \in {} |-> 0]

(***************************************************************************)
(* Request parameters (scaled down: the route admits limit 5..200).        *)
(***************************************************************************)
Limits == {1, 2}
NewsLimits == {5}
HoursBack == {72}
Days == {30}

(***************************************************************************)
(* Upstream answers.                                                       *)
(***************************************************************************)
\* Yahoo chart answer: HTTP status, number of bars (n = 0: no result or no
\* timestamps), returns
PriceResponses ==
  { [status |-> 500, n |-> 0,  rb1 |-> 0,   rb5 |-> 0,    rb20 |-> 0,    vol |-> 0],
    [status |-> 200, n |-> 0,  rb1 |-> 0,   rb5 |-> 0,    rb20 |-> 0,    vol |-> 0],
    [status |-> 200, n |-> 24, rb1 |-> 100, rb5 |-> 200,  rb20 |-> 300,  vol |-> 0],
    [status |-> 200, n |-> 25, rb1 |-> 100, rb5 |-> -200, rb20 |-> -300, vol |-> 0] }

\* NewsAPI answer: status 0 stands for an exception of requests.get or of
\* r.json() (network error, timeout, unparsable body)
NewsResponses ==
  { [status |-> 0,   arts |-> 0, sent |-> 0],
    [status |-> 429, arts |-> 0, sent |-> 0],
    [status |-> 200, arts |-> 0, sent |-> 0],
    [status |-> 200, arts |-> 3, sent |-> 0] }

NoData == [ticker |-> 0, n |-> 0, rb1 |-> 0, rb5 |-> 0, rb20 |-> 0, vol |-> 0,
           days |-> 0, at |-> 0]
NoNews == [ticker |-> 0, cnt |-> 0, sent |-> 0, limit |-> 0, hours |-> 0, at |-> 0]

\* fetch_yahoo_prices: raises on a non-200 status or an answer without bars,
\* else keeps the last `days` rows.  days and at record the call.
fetch_yahoo_prices(ticker, days, r, t) ==
  IF r.status # 200 \/ r.n = 0
    THEN [ok |-> FALSE, data |-> NoData]
    ELSE [ok |-> TRUE,
          data |-> [ticker |-> ticker, n |-> Min(r.n, days), rb1 |-> r.rb1,
                    rb5 |-> r.rb5, rb20 |-> r.rb20, vol |-> r.vol,
                    days |-> days, at |-> t]]

\* a variant that raises on a non-200 status
fetch_news_newsapi_strict(key, ticker, limit, hours, r, t) ==
  LET empty == [ticker |-> ticker, cnt |-> 0, sent |-> 0, limit |-> limit,
                hours |-> hours, at |-> t]
  IN IF key = "" THEN [ok |-> TRUE, data |-> empty]
     ELSE IF r.status # 200 THEN [ok |-> FALSE, data |-> NoNews]
     ELSE [ok |-> TRUE,
           data |-> [empty EXCEPT !.cnt = Min(r.arts, Max(limit, 0)),
                                  !.sent = IF Min(r.arts, Max(limit, 0)) = 0
                                             THEN 0 ELSE r.sent]]

\* fetch_news_newsapi: empty without a key or on a non-200 status; an
\* exception of the HTTP call or of the JSON decoding is not caught.
fetch_news_newsapi(key, ticker, limit, hours, r, t) ==
  LET empty == [ticker |-> ticker, cnt |-> 0, sent |-> 0, limit |-> limit,
                hours |-> hours, at |-> t]
  IN IF key = "" THEN [ok |-> TRUE, data |-> empty]
     ELSE IF r.status = 0 THEN [ok |-> FALSE, data |-> NoNews]
     ELSE IF r.status # 200 THEN [ok |-> TRUE, data |-> empty]
     ELSE [ok |-> TRUE,
           data |-> [empty EXCEPT !.cnt = Min(r.arts, Max(limit, 0)),
                                  !.sent = IF Min(r.arts, Max(limit, 0)) = 0
                                             THEN 0 ELSE r.sent]]

\* momentum = (r1 * 50.0) + (r5 * 30.0) + (r20 * 20.0)
momentum(p) == (p.rb1 * 50) + (p.rb5 * 30) + (p.rb20 * 20)

\* risk = vol * 100.0, the volatility taken only from 31 closes on
risk(p) == IF p.n >= RISK_CLOSES THEN p.vol ELSE 0

\* news_impact = (avg_sent * 60.0) + (min(n_count, 10) * 4.0)
news_impact(n) == (n.sent * 6) + (Min(n.cnt, 10) * 40)

is_downtrend(p) == (p.rb5 < 0) /\ (p.rb20 < 0)
has_positive_news(n) == news_impact(n) >= 80
has_bounce(p) == (p.rb1 > 0) \/ (p.rb5 > -100)

\* the bonus without its precondition on the trend
turnaround_bonus_any_trend(p, n) ==
  IF has_positive_news(n)
    THEN Min(1200, news_impact(n) * 6) + (IF has_bounce(p) THEN 300 ELSE 0)
    ELSE 0

\* base = min(12.0, news_impact * 0.6); base + (3.0 if has_bounce else 0.0)
turnaround_bonus(p, n) ==
  IF is_downtrend(p) /\ has_positive_news(n)
    THEN Min(1200, news_impact(n) * 6) + (IF has_bounce(p) THEN 300 ELSE 0)
    ELSE 0

\* (0.5 * news_impact) + (0.3 * momentum) - (0.2 * risk) + turnaround_bonus
final_score(ni, mom, rsk, bonus) ==
  (5000 * ni) + (3 * mom) - (200 * rsk) + (1000 * bonus)

\* the label of compute_score_from_series: the later assignment wins
series_label(p, n) ==
  LET fs == final_score(news_impact(n), momentum(p), risk(p), turnaround_bonus(p, n))
  IN IF risk(p) > 400 /\ fs > 0 THEN "High Risk Watch"
     ELSE IF is_downtrend(p) /\ has_positive_news(n) THEN "Turnaround Watch"
     ELSE IF news_impact(n) > 100 /\ momentum(p) > 0 THEN "Catalyst + Momentum"
     ELSE "Watch"

\* compute_score_from_series; the label is part of the reason string
compute_score_from_series(ticker, p, n) ==
  IF p.n < MIN_CLOSES
    THEN [ok |-> FALSE,
          score |-> [ticker |-> ticker, final_score |-> 0, news_impact |-> 0,
                     momentum |-> 0, risk |-> 0, label |-> "",
                     p_at |-> 0, n_at |-> 0]]
    ELSE [ok |-> TRUE,
          score |-> [ticker |-> ticker,
                     final_score |-> final_score(news_impact(n), momentum(p),
                                                 risk(p), turnaround_bonus(p, n)),
                     news_impact |-> news_impact(n),
                     momentum |-> momentum(p), risk |-> risk(p),
                     label |-> series_label(p, n),
                     p_at |-> p.at, n_at |-> n.at]]

(***************************************************************************)
(* The score inputs computed from the closes and from the articles.        *)
(***************************************************************************)
RECURSIVE SumSeq(_)
SumSeq(xs) == IF xs = <<>> THEN 0 ELSE Head(xs) + SumSeq(Tail(xs))

\* the integer square root of v, looked for in lo..hi
RECURSIVE SqrtIn(_, _, _)
SqrtIn(v, lo, hi) ==
  IF lo >= hi THEN lo
  ELSE LET mid == (lo + hi + 1) \div 2
       IN IF mid * mid <= v THEN SqrtIn(v, mid, hi) ELSE SqrtIn(v, lo, mid - 1)

Sqrt(v) == SqrtIn(v, 0, 20000)

\* ret(n_days): closes[-1] / closes[-(n_days + 1)] - 1.0, or 0.0
ret(closes, n_days) ==
  IF Len(closes) >= n_days + 1
    THEN ((closes[Len(closes)] * 10000) \div closes[Len(closes) - n_days]) - 10000
    ELSE 0

\* the last 30 one-day returns of a series of 31 closes or more
rets_1d(closes) ==
  [k \in 1..30 |->
     LET i == Len(closes) - 30 + k
     IN ((closes[i] - closes[i - 1]) * 10000) \div closes[i - 1]]

\* sum((x - mean) ** 2 for x in xs), mean = sum(xs) / len(xs)
SquaredDeviations(xs) ==
  SumSeq([k \in DOMAIN xs |-> xs[k] * xs[k]]) - ((SumSeq(xs) * SumSeq(xs)) \div Len(xs))

\* math.sqrt(sum of squared deviations / max(1, len - 1))
sample_std(xs) == Sqrt(SquaredDeviations(xs) \div Max(1, Len(xs) - 1))

\* numpy.std: the denominator is len
np_std(xs) == Sqrt(SquaredDeviations(xs) \div Len(xs))

\* what compute_score_from_series reads from the closes
series_stats(closes) ==
  [n |-> Len(closes), rb1 |-> ret(closes, 1), rb5 |-> ret(closes, 5),
   rb20 |-> ret(closes, 20),
   vol |-> IF Len(closes) >= RISK_CLOSES THEN sample_std(rets_1d(closes)) ELSE 0,
   at |-> 0]

\* what compute_scores reads from the closes
stored_stats(closes) ==
  [series_stats(closes) EXCEPT
     !.vol = IF Len(closes) >= RISK_CLOSES /\ Len(rets_1d(closes)) > 5
               THEN np_std(rets_1d(closes)) ELSE 0]

\* n_count and avg_sent of a list of article sentiments
news_stats(sentiments) ==
  [cnt |-> Len(sentiments),
   sent |-> IF Len(sentiments) # 0 THEN SumSeq(sentiments) \div Len(sentiments) ELSE 0,
   at |-> 0]

\* the label of compute_scores: the later assignment wins
scores_label(p, n) ==
  LET fs == final_score(news_impact(n), momentum(p), risk(p), turnaround_bonus(p, n))
  IN IF is_downtrend(p) /\ has_positive_news(n) THEN "Turnaround Watch"
     ELSE IF news_impact(n) > 100 /\ momentum(p) > 0 THEN "Catalyst + Momentum"
     ELSE IF risk(p) > 400 /\ fs > 0 THEN "High Risk Watch"
     ELSE "Watch"

\* one round of the loop of compute_scores up to the DailyScore row; a ticker
\* with fewer than 25 prices is passed over
score_row(ticker, date, closes, sentiments) ==
  LET p == stored_stats(closes)
      n == news_stats(sentiments)
  IN IF Len(closes) < MIN_CLOSES
       THEN <<>>
       ELSE <<[ticker |-> ticker, date |-> date,
               news_impact |-> news_impact(n), momentum |-> momentum(p),
               risk |-> risk(p),
               final_score |-> final_score(news_impact(n), momentum(p), risk(p),
                                           turnaround_bonus(p, n)),
               label |-> scores_label(p, n)]>>

(***************************************************************************)
(* Watchlist assembly.                                                     *)
(***************************************************************************)
\* s[:limit]
Slice(s, limit) ==
  IF limit >= 0 THEN SubSeq(s, 1, Min(limit, Len(s)))
                ELSE SubSeq(s, 1, Max(0, Len(s) + limit))

\* place x behind every element whose final_score is not smaller
RECURSIVE InsertDesc(_, _)
InsertDesc(x, s) ==
  IF s = <<>> THEN <<x>>
  ELSE IF Head(s).final_score >= x.final_score
         THEN <<Head(s)>> \o InsertDesc(x, Tail(s))
         ELSE <<x>> \o s

RECURSIVE SortInto(_, _)
SortInto(acc, rest) ==
  IF rest = <<>> THEN acc ELSE SortInto(InsertDesc(Head(rest), acc), Tail(rest))

\* the sort without reverse=True
sort_ascending(items) ==
  LET d == SortInto(<<>>, items)
  IN [k \in 1..Len(d) |-> d[Len(d) + 1 - k]]

\* items.sort(key=final_score, reverse=True): stable, descending
sort_by_final_score(items) == SortInto(<<>>, items)

\* the parameters of a watchlist request
WlParams(args) == [limit |-> args.limit, news_limit |-> args.news_limit,
                   hours |-> args.hours, days |-> args.days]

\* the dict build_watchlist returns; built records the call's parameters
build_result(items, args) ==
  [date |-> "today", caution |-> TRUE, notes |-> TRUE,
   items |-> Slice(sort_by_final_score(items), args.limit),
   built |-> WlParams(args)]

(***************************************************************************)
(* Request threads.                                                        *)
(***************************************************************************)
\* inexact: a secret is configured and the request does not carry exactly it
NoArgs == [ticker |-> 0, days |-> 0, limit |-> 0, news_limit |-> 0, hours |-> 0,
           inexact |-> FALSE]
NoResp == [kind |-> "none", status |-> 0, at |-> 0, src |-> "none",
           body |-> [none |-> TRUE]]

Idle == [op |-> "none", pc |-> "idle", args |-> NoArgs, now |-> 0, wl_now |-> 0,
         i |-> 0, items |-> <<>>, log |-> <<>>, p |-> NoData, data_p |-> NoData,
         data_n |-> NoNews, wl |-> <<>>, quiet |-> TRUE, stale |-> FALSE,
         resp |-> NoResp]

\* the upstream fetch (for the builder: the build) of thread record t is under
\* way or over, and its result is not yet installed
InFlight(t) ==
  IF t.op = "watchlist" THEN t.pc \notin {"idle", "done", "wl_check"}
  ELSE t.pc \in {"p_fetch", "p_store", "n_fetch", "n_store"}

\* a fresh request of thread p; a refresh under way is no longer alone
Begin(p, t) ==
  [q \in Threads |->
     IF q = p THEN t
     ELSE IF th[q].op = "refresh" /\ th[q].pc \notin {"idle", "done"}
            THEN [th[q] EXCEPT !.quiet = FALSE] ELSE th[q]]

\* the route has its response (or its exception); now is the time the call read
Done(t, kind, status, src, body, now) ==
  [Idle EXCEPT !.op = t.op, !.pc = "done", !.args = t.args, !.quiet = t.quiet,
               !.resp = [kind |-> kind, status |-> status, at |-> now,
                         src |-> src, body |-> body]]

\* the worker pool hands a request to its first free thread
Free(p) ==
  /\ p <= pool /\ th[p].pc = "idle" /\ \A q \in Threads : q < p => th[q].pc # "idle"
  /\ left > 0

\* the ticker a cached read of thread record t is about
CurTicker(t) == IF t.op = "watchlist" THEN UNIVERSE[t.i] ELSE t.args.ticker
PriceKey(t) == <<CurTicker(t), t.args.days>>
NewsKey(t) == <<CurTicker(t), t.args.news_limit, t.args.hours>>

\* for ticker in UNIVERSE: the next round of the loop, or its end
NextTicker(t) ==
  [t EXCEPT !.i = @ + 1, !.p = NoData, !.data_p = NoData, !.data_n = NoNews,
            !.pc = IF t.i + 1 > NumTickers THEN "wl_set" ELSE "p_check"]

\* the handler of a failing ticker leaving the loop (break for continue)
TickerFailedBreak(t, why) ==
  [t EXCEPT !.log = Append(@, "fail"), !.pc = "wl_set"]

\* except Exception: continue
TickerFailed(t, why) == NextTicker([t EXCEPT !.log = Append(@, "fail")])

\* get_prices_cached returned data to its caller
GotPrices(t, data, src, now) ==
  IF t.op = "watchlist"
    THEN [t EXCEPT !.p = data, !.data_p = NoData, !.pc = "n_check"]
    ELSE Done(t, "company", 200, src,
              [ticker |-> t.args.ticker, prices |-> data, caution |-> TRUE], now)

\* a variant that answers a failed price fetch with the entry it still holds
Raised_stale_on_error(t, why) ==
  IF why = "price" /\ PriceKey(t) \in DOMAIN cache.prices
    THEN GotPrices(t, cache.prices[PriceKey(t)].data, "cache", t.now)
    ELSE IF t.op = "watchlist" THEN TickerFailed(t, why)
    ELSE Done(t, "error", 502, "fetch", [detail |-> why], t.now)

\* an exception leaves get_prices_cached / get_news_cached
Raised(t, why) ==
  IF t.op = "watchlist" THEN TickerFailed(t, why)
  ELSE Done(t, "error", 502, "fetch", [detail |-> why], t.now)

\* get_news_cached returned data to its caller
GotNews(t, data, src, now) ==
  IF t.op = "watchlist"
    THEN LET s == compute_score_from_series(CurTicker(t), t.p, data)
         IN IF s.ok
              THEN NextTicker([t EXCEPT !.items = Append(@, s.score),
                                        !.log = Append(@, "ok")])
              ELSE TickerFailed(t, "score")
    ELSE Done(t, "news", 200, src,
              [ticker |-> t.args.ticker, items |-> data, caution |-> TRUE], now)

\* the hit test without the age
IsLiveForever(d, key, now) == key \in DOMAIN d

\* hit and (now - hit["ts"] <= CACHE_TTL_SEC)
IsLive(d, key, now) == key \in DOMAIN d /\ now - d[key].ts <= CACHE_TTL_SEC

\* _cache["watchlist"] and (now - _cache["watchlist_ts"] <= CACHE_TTL_SEC)
WatchlistLive(c, now) == c.watchlist # <<>> /\ now - c.watchlist_ts <= CACHE_TTL_SEC

(***************************************************************************)
(* The tables and the batch job.                                           *)
(***************************************************************************)
\* the tables after create_all: companies, daily_prices, daily_scores
EmptyDb == [companies |-> {}, prices |-> {}, scores |-> {}]

\* no job is running; df is None (<<>>) or a one-element tuple with the frame,
\* tries counts the downloads of the chunk, wait is the last time.sleep, log
\* has the fate of every chunk (of every ticker, for the scoring job) so far;
\* date and i are for_date and the place in the universe of the scoring job
NoJob == [pc |-> "idle", chunk_size |-> 0, sleep_sec |-> 0, max_retries |-> 0,
          g |-> 0, attempt |-> 0, tries |-> 0, df |-> <<>>, wait |-> 0,
          log |-> <<>>, date |-> 0, i |-> 0]

\* no input is being scored; series and stored take what the two scoring
\* implementations computed from the input
NoCalc == [pc |-> "none", closes |-> <<>>, sentiments |-> <<>>,
           series |-> <<>>, stored |-> <<>>,
           payload |-> <<>>, days |-> 0, rows |-> <<>>]

\* the deployments considered: both secrets set, or none (dev mode)
Configs == {<<"k", "s">>, <<"", "">>}

Start ==
  /\ cache = [watchlist |-> <<>>, watchlist_ts |-> 0,
              prices |-> EmptyDict, news |-> EmptyDict,
              watchlist_by |-> 0, watchlist_ts_by |-> 0]
  /\ th = [p \in Threads |-> Idle]
  /\ clock = StartTime
  /\ \E cfg \in Configs : NEWSAPI_KEY = cfg[1] /\ REFRESH_TOKEN = cfg[2]
  /\ db = EmptyDb
  /\ job = NoJob

\* nothing is being scored outside a request
Boot == Start /\ calc = NoCalc

\* one worker thread: the requests are served one after the other
Init == Boot /\ pool = 1 /\ left = MaxRequests

\* one worker thread that is only asked for the watchlist
InitBuild == Boot /\ pool = 1 /\ left = MaxBuilds

\* one worker thread that is only asked for prices and news
InitReads == Boot /\ pool = 1 /\ left = MaxReads

\* a pool of worker threads: the requests overlap
InitPool == Boot /\ pool = NumThreads /\ left = MaxOverlapRequests

\* one worker thread that is only asked for news, with the NewsAPI key set
InitOutage == Boot /\ pool = 1 /\ left = MaxNewsReads /\ NEWSAPI_KEY # ""

\* the API is idle while the ingestion job runs
InitIngest == Boot /\ pool = 1 /\ left = MaxIngests

Config == UNCHANGED <<pool, NEWSAPI_KEY, REFRESH_TOKEN, db, job, calc>>

\* time passes.  The clock unit is long against the time a request takes
\* (the upstream calls time out after 25 s, the TTL is 1800 s): the clock
\* advances between requests.
Tick ==
  /\ clock < StartTime + MaxTicks
  /\ \A q \in Threads : th[q].pc \in {"idle", "done"}
  /\ clock' = clock + 1
  /\ UNCHANGED <<cache, th, left>> /\ Config

\* GET /: the banner with the caution block
home ==
  \E p \in Threads :
    /\ Free(p)
    /\ th' = Begin(p, Done([Idle EXCEPT !.op = "home"], "home", 200, "none",
                           [message |-> "running", caution |-> TRUE], clock))
    /\ left' = left - 1
    /\ UNCHANGED <<cache, clock>> /\ Config

\* GET /health: status, date and cache_ttl_sec
health ==
  \E p \in Threads :
    /\ Free(p)
    /\ th' = Begin(p, Done([Idle EXCEPT !.op = "health"], "health", 200, "none",
                           [status |-> "ok", date |-> "today",
                            cache_ttl_sec |-> CACHE_TTL_SEC], clock))
    /\ left' = left - 1
    /\ UNCHANGED <<cache, clock>> /\ Config

\* GET /watchlist/today arrives
watchlist_today ==
  \E p \in Threads, l \in Limits, nl \in NewsLimits, hb \in HoursBack, d \in Days :
    /\ Free(p)
    /\ th' = Begin(p, [Idle EXCEPT !.op = "watchlist", !.pc = "wl_check",
                         !.args = [NoArgs EXCEPT !.days = d, !.limit = l,
                                                 !.news_limit = nl, !.hours = hb]])
    /\ left' = left - 1
    /\ UNCHANGED <<cache, clock>> /\ Config

\* GET /company/{ticker} arrives
company_detail ==
  \E p \in Threads, tk \in 1..NumTickers, d \in Days :
    /\ Free(p)
    /\ th' = Begin(p, [Idle EXCEPT !.op = "company", !.pc = "p_check",
                         !.args = [NoArgs EXCEPT !.ticker = tk, !.days = d]])
    /\ left' = left - 1
    /\ UNCHANGED <<cache, clock>> /\ Config

\* GET /news/{ticker} arrives
company_news ==
  \E p \in Threads, tk \in 1..NumTickers, nl \in NewsLimits, hb \in HoursBack :
    /\ Free(p)
    /\ th' = Begin(p, [Idle EXCEPT !.op = "news", !.pc = "n_check",
                         !.args = [NoArgs EXCEPT !.ticker = tk, !.news_limit = nl,
                                                 !.hours = hb]])
    /\ left' = left - 1
    /\ UNCHANGED <<cache, clock>> /\ Config

\* wl2 = dict(wl); wl2["items"] = wl["items"][:limit]: the copy handed out
wl2(wl, limit) == [wl EXCEPT !.items = Slice(wl.items, limit)]

\* a variant that slices the cached dict itself
cached_sliced_in_place(wl, limit) == [wl EXCEPT !.items = Slice(wl.items, limit)]

\* the cached dict after a read: dict(wl) is a copy and the slice a new list
cached_after_read(wl, limit) == wl

\* get_watchlist_cached up to the decision between the cached copy and a build
WlCheck ==
  \E p \in Threads :
    LET t == th[p]
        now == clock
        wl == cache.watchlist[1]
    IN /\ t.pc = "wl_check"
       /\ th' = [th EXCEPT ![p] =
                   IF WatchlistLive(cache, now)
                     THEN Done(t, "watchlist", 200, "cache",
                               wl2(wl, t.args.limit), now)
                     ELSE [t EXCEPT !.wl_now = now, !.i = 1,
                                    !.pc = IF NumTickers = 0 THEN "wl_set"
                                                             ELSE "p_check"]]
       /\ cache' = IF WatchlistLive(cache, now)
                     THEN [cache EXCEPT !.watchlist =
                             <<cached_after_read(wl, t.args.limit)>>]
                     ELSE cache
       /\ UNCHANGED <<clock, left>> /\ Config

\* get_prices_cached up to the decision between the entry and a fetch
PCheck ==
  \E p \in Threads :
    LET t == th[p]
        now == clock
        key == PriceKey(t)
    IN /\ t.pc = "p_check"
       /\ th' = [th EXCEPT ![p] =
                   IF IsLive(cache.prices, key, now)
                     THEN GotPrices(t, cache.prices[key].data, "cache", now)
                     ELSE [t EXCEPT !.now = now, !.pc = "p_fetch"]]
       /\ UNCHANGED <<cache, clock, left>> /\ Config

\* data = fetch_yahoo_prices(ticker, days): the upstream call, answered from R
PFetchFrom(R) ==
  \E p \in Threads, r \in R :
    LET t == th[p]
        res == fetch_yahoo_prices(CurTicker(t), t.args.days, r, clock)
    IN /\ t.pc = "p_fetch"
       /\ th' = [th EXCEPT ![p] =
                   IF res.ok THEN [t EXCEPT !.data_p = res.data, !.pc = "p_store"]
                             ELSE Raised(t, "price")]
       /\ UNCHANGED <<cache, clock, left>> /\ Config

PFetch == PFetchFrom(PriceResponses)

\* the upstream call while Yahoo is up and has the history
PFetchUp == PFetchFrom({r \in PriceResponses : r.status = 200 /\ r.n >= MIN_CLOSES})

\* _cache["prices"][key] = {"ts": now, "data": data}; return data
PStore ==
  \E p \in Threads :
    LET t == th[p]
    IN /\ t.pc = "p_store"
       /\ cache' = [cache EXCEPT !.prices =
                      Put(@, PriceKey(t), [ts |-> t.now, data |-> t.data_p])]
       /\ th' = [th EXCEPT ![p] = GotPrices(t, t.data_p, "fetch", t.now)]
       /\ UNCHANGED <<clock, left>> /\ Config

\* get_news_cached up to the decision between the entry and a fetch
NCheck ==
  \E p \in Threads :
    LET t == th[p]
        now == clock
        key == NewsKey(t)
    IN /\ t.pc = "n_check"
       /\ th' = [th EXCEPT ![p] =
                   IF IsLive(cache.news, key, now)
                     THEN GotNews(t, cache.news[key].data, "cache", now)
                     ELSE [t EXCEPT !.now = now, !.pc = "n_fetch"]]
       /\ UNCHANGED <<cache, clock, left>> /\ Config

\* data = fetch_news_newsapi(ticker, limit, hours_back): the upstream call,
\* answered from R
NFetchFrom(R) ==
  \E p \in Threads, r \in R :
    LET t == th[p]
        res == fetch_news_newsapi(NEWSAPI_KEY, CurTicker(t), t.args.news_limit,
                                  t.args.hours, r, clock)
    IN /\ t.pc = "n_fetch"
       /\ th' = [th EXCEPT ![p] =
                   IF res.ok THEN [t EXCEPT !.data_n = res.data, !.pc = "n_store"]
                             ELSE Raised(t, "news")]
       /\ UNCHANGED <<cache, clock, left>> /\ Config

NFetch == NFetchFrom(NewsResponses)

\* the upstream call while NewsAPI answers with an error status
NFetchDown == NFetchFrom({r \in NewsResponses : r.status \notin {0, 200}})

\* the upstream call while NewsAPI is up and has articles
NFetchUp == NFetchFrom({r \in NewsResponses : r.status = 200 /\ r.arts > 0})

\* _cache["news"][key] = {"ts": now, "data": data}; return data
NStore ==
  \E p \in Threads :
    LET t == th[p]
    IN /\ t.pc = "n_store"
       /\ cache' = [cache EXCEPT !.news =
                      Put(@, NewsKey(t), [ts |-> t.now, data |-> t.data_n])]
       /\ th' = [th EXCEPT ![p] = GotNews(t, t.data_n, "fetch", t.now)]
       /\ UNCHANGED <<clock, left>> /\ Config

\* the loop of build_watchlist is over: sort, truncate, _cache["watchlist"] = wl
WlSet ==
  \E p \in Threads :
    LET t == th[p]
        wl == build_result(t.items, t.args)
    IN /\ t.pc = "wl_set"
       /\ cache' = [cache EXCEPT !.watchlist = <<wl>>, !.watchlist_by = p]
       /\ th' = [th EXCEPT ![p] = [t EXCEPT !.wl = <<wl>>, !.pc = "wl_ts"]]
       /\ UNCHANGED <<clock, left>> /\ Config

\* _cache["watchlist_ts"] = now; return wl
WlTs ==
  \E p \in Threads :
    LET t == th[p]
    IN /\ t.pc = "wl_ts"
       /\ cache' = [cache EXCEPT !.watchlist_ts = t.wl_now, !.watchlist_ts_by = p]
       /\ th' = [th EXCEPT ![p] = Done(t, "watchlist", 200, "build", t.wl[1], t.wl_now)]
       /\ UNCHANGED <<clock, left>> /\ Config

(***************************************************************************)
(* The refresh route.                                                      *)
(***************************************************************************)
\* the X-REFRESH-TOKEN header: absent (<<>>) or a one-element tuple
Headers == {<<>>, <<"">>, <<"s">>, <<" s ">>, <<"x">>}

\* str.strip on the header values above
Strip(x) == IF x = " s " THEN "s" ELSE x

\* require_refresh_token: TRUE when the request may pass
require_refresh_token(secret, h) ==
  IF secret = "" THEN TRUE
  ELSE IF h = <<>> \/ h = <<"">> \/ Strip(h[1]) # secret THEN FALSE
  ELSE TRUE

\* the four statements of refresh: _cache["watchlist"] = None,
\* _cache["watchlist_ts"] = 0.0, _cache["prices"].clear(), _cache["news"].clear()
refresh_watchlist(c, by) == [c EXCEPT !.watchlist = <<>>, !.watchlist_by = by]
refresh_watchlist_ts(c, by) == [c EXCEPT !.watchlist_ts = 0, !.watchlist_ts_by = by]
refresh_prices(c) == [c EXCEPT !.prices = EmptyDict]
\* a refresh that leaves the news entries in place
refresh_news_kept(c) == c

refresh_news(c) == [c EXCEPT !.news = EmptyDict]

\* POST /refresh arrives with a header of H; the token dependency runs first
refreshFrom(H) ==
  \E p \in Threads, h \in H :
    /\ Free(p)
    /\ th' = Begin(p,
               LET t == [Idle EXCEPT !.op = "refresh",
                                     !.args.inexact = REFRESH_TOKEN # "" /\
                                                        h # <<REFRESH_TOKEN>>]
               IN IF require_refresh_token(REFRESH_TOKEN, h)
                    THEN [t EXCEPT !.pc = "rf_wl",
                                   !.quiet = \A q \in Threads \ {p} :
                                                th[q].pc \in {"idle", "done"}]
                    ELSE Done(t, "error", 401, "auth", [detail |-> "token"], clock))
    /\ left' = left - 1
    /\ UNCHANGED <<cache, clock>> /\ Config

refresh == refreshFrom(Headers)

\* POST /refresh from the operator, who sends the secret as configured
refreshOperator == refreshFrom({<<REFRESH_TOKEN>>})

\* one statement of refresh, which leaves the cache as c; the last one returns
RfStep(p, from, to, c) ==
  LET t == th[p]
  IN /\ t.pc = from
     /\ cache' = c
     /\ th' = [q \in Threads |->
                 IF q # p
                   THEN (IF to = "idle" /\ InFlight(th[q])
                           THEN [th[q] EXCEPT !.stale = TRUE] ELSE th[q])
                   ELSE IF to = "idle"
                     THEN Done(t, "refresh", 200, "refresh",
                               [ok |-> TRUE, message |-> "cleared"], clock)
                     ELSE [t EXCEPT !.pc = to]]
     /\ UNCHANGED <<clock, left>> /\ Config

\* the response has been sent; the thread returns to the pool
Return ==
  \E p \in Threads :
    /\ th[p].pc = "done"
    /\ th' = [th EXCEPT ![p] = Idle]
    /\ UNCHANGED <<cache, clock, left>> /\ Config

RfWatchlist == \E p \in Threads : RfStep(p, "rf_wl", "rf_ts", refresh_watchlist(cache, p))
RfWatchlistTs == \E p \in Threads : RfStep(p, "rf_ts", "rf_prices", refresh_watchlist_ts(cache, p))
RfPrices == \E p \in Threads : RfStep(p, "rf_prices", "rf_news", refresh_prices(cache))
RfNews == \E p \in Threads : RfStep(p, "rf_news", "idle", refresh_news(cache))

(***************************************************************************)
(* Price ingestion (src/ingest_prices.py).                                 *)
(***************************************************************************)
\* the arguments of ingest_prices (scaled down: chunk_size 15, sleep_sec 2.5)
ChunkSizes == {1, 2}
SleepSecs == {2}

\* a row of a downloaded frame: Date, Close, Volume
Bar(d, c, v) == [date |-> d, close |-> c, volume |-> v]

\* the frames yf.download answers with: no row, one day, the day restated
\* together with the next day
Frames == { <<>>,
            <<Bar(1, 10, 100)>>,
            <<Bar(1, 11, 110), Bar(2, 12, 120)>> }

\* one call of yf.download: a frame, a rate-limit exception, another exception
Downloads == {[kind |-> "frame", frame |-> f] : f \in Frames}
               \cup {[kind |-> k, frame |-> <<>>] : k \in {"rate", "error"}}

\* chunked(lst, n)
chunked(lst, n) ==
  [k \in 1..((Len(lst) + n - 1) \div n) |->
     SubSeq(lst, (k - 1) * n + 1, Min(k * n, Len(lst)))]

\* the wait without the attempt number
backoff_flat(sleep_sec, attempt) == sleep_sec * 3

\* wait = sleep_sec * attempt * 3
backoff(sleep_sec, attempt) == sleep_sec * attempt * 3

\* db.add(rec); db.commit(), except IntegrityError: db.rollback() under the
\* unique constraint uq_price_ticker_date
commit_price(rows, rec) ==
  IF \E r \in rows : r.ticker = rec.ticker /\ r.date = rec.date
    THEN rows
    ELSE rows \cup {rec}

\* for _, row in sub.iterrows()
RECURSIVE insert_rows(_, _, _)
insert_rows(rows, ticker, frame) ==
  IF frame = <<>> THEN rows
  ELSE insert_rows(commit_price(rows, [ticker |-> ticker, date |-> Head(frame).date,
                                       close |-> Head(frame).close,
                                       volume |-> Head(frame).volume]),
                   ticker, Tail(frame))

\* for ticker in group
RECURSIVE insert_group(_, _, _)
insert_group(rows, group, frame) ==
  IF group = <<>> THEN rows
  ELSE insert_group(insert_rows(rows, Head(group), frame), Tail(group), frame)

\* the chunk the job is at
Group(j) == chunked(UNIVERSE, j.chunk_size)[j.g]

\* the next round of for group in chunked(...), or the end of the job
next_group(j) ==
  IF j.g + 1 > Len(chunked(UNIVERSE, j.chunk_size))
    THEN [j EXCEPT !.pc = "done", !.df = <<>>]
    ELSE [j EXCEPT !.pc = "download", !.g = @ + 1, !.attempt = 1, !.tries = 0]

\* ingest_prices is started: the companies are upserted, the first chunk begins
ingest_prices ==
  \E cs \in ChunkSizes, ss \in SleepSecs, mr \in 1..MaxRetries :
    /\ job.pc \in {"idle", "done", "raised"}
    /\ left > 0
    /\ left' = left - 1
    /\ db' = [db EXCEPT !.companies = @ \cup {UNIVERSE[k] : k \in DOMAIN UNIVERSE}]
    /\ job' = IF Len(UNIVERSE) = 0
                THEN [NoJob EXCEPT !.pc = "done"]
                ELSE [NoJob EXCEPT !.pc = "download", !.chunk_size = cs,
                                   !.sleep_sec = ss, !.max_retries = mr,
                                   !.g = 1, !.attempt = 1]
    /\ UNCHANGED <<cache, th, clock, pool, NEWSAPI_KEY, REFRESH_TOKEN, calc>>

\* one round of for attempt in range(1, max_retries + 1): yf.download returns
\* (break), is rate limited (sleep, df = None, continue) or raises
Download ==
  \E d \in Downloads :
    /\ job.pc = "download"
    /\ job' =
         LET j == [job EXCEPT !.tries = @ + 1]
         IN CASE d.kind = "frame" -> [j EXCEPT !.df = <<d.frame>>, !.pc = "store"]
              [] d.kind = "rate" ->
                   [j EXCEPT !.wait = backoff(job.sleep_sec, job.attempt),
                             !.df = <<>>,
                             !.attempt = IF job.attempt < job.max_retries
                                           THEN @ + 1 ELSE @,
                             !.pc = IF job.attempt < job.max_retries
                                      THEN "download" ELSE "store"]
              [] OTHER -> [j EXCEPT !.pc = "raised"]
    /\ UNCHANGED <<cache, th, clock, left, pool, NEWSAPI_KEY, REFRESH_TOKEN, db, calc>>

\* after the attempts: a chunk without data is skipped, else its rows are
\* inserted ticker by ticker; then time.sleep(sleep_sec)
StoreChunk ==
  /\ job.pc = "store"
  /\ db' = IF job.df = <<>> \/ job.df[1] = <<>>
             THEN db
             ELSE [db EXCEPT !.prices = insert_group(@, Group(job), job.df[1])]
  /\ job' = next_group([job EXCEPT !.wait = job.sleep_sec,
                                  !.log = Append(@, IF job.df = <<>> THEN "abandoned"
                                                    ELSE IF job.df[1] = <<>> THEN "empty"
                                                    ELSE "stored")])
  /\ UNCHANGED <<cache, th, clock, left, pool, NEWSAPI_KEY, REFRESH_TOKEN, calc>>

\* the steps of the cached readers, of the builder and of the refresh
ReadSteps == PCheck \/ PStore \/ NCheck \/ NStore \/ Return
BuildSteps == WlCheck \/ WlSet \/ WlTs
RefreshSteps == RfWatchlist \/ RfWatchlistTs \/ RfPrices \/ RfNews

Next ==
  \/ Tick
  \/ home \/ health
  \/ watchlist_today \/ company_detail \/ company_news \/ refresh
  \/ ReadSteps \/ PFetch \/ NFetch \/ BuildSteps \/ RefreshSteps

NextBuild ==
  Tick \/ watchlist_today \/ ReadSteps \/ PFetch \/ NFetch \/ BuildSteps

NextReads ==
  Tick \/ company_detail \/ company_news \/ ReadSteps \/ PFetch \/ NFetch

\* news requests while NewsAPI goes down and comes back
NextOutage ==
  Tick \/ company_news \/ NCheck \/ NFetchDown \/ NFetchUp \/ NStore \/ Return

NextPool ==
  \/ watchlist_today \/ company_detail \/ company_news \/ refreshOperator
  \/ ReadSteps \/ PFetchUp \/ NFetchUp \/ BuildSteps \/ RefreshSteps

(***************************************************************************)
(* The two scoring implementations on one input.                           *)
(***************************************************************************)
\* a price history of n closes: old up to the sixth last, then 200, then the
\* last two closes
ClosesOf(n, old, tail) ==
  [i \in 1..n |-> IF i <= n - 6 THEN old
                  ELSE IF i <= n - 2 THEN 200 ELSE tail[i - (n - 2)]]

\* the closes 100, 101, 102, ...
Ramp(n) == [i \in 1..n |-> 99 + i]

SeriesLengths == {MIN_CLOSES - 1, MIN_CLOSES, RISK_CLOSES}
CloseValues == {150, 199, 200}

SeriesInputs ==
  {ClosesOf(n, old, <<a, b>>) :
     n \in SeriesLengths, old \in {150, 200}, a \in CloseValues, b \in CloseValues}
    \cup {Ramp(MIN_CLOSES)}

\* the sentiments of the articles (hundredths)
SentimentInputs == { <<>>, <<0, 0>>, <<0, 0, 0>>, <<-5, -5>>, <<50>> }

\* an input is handed to the two scoring implementations
InitScore ==
  /\ Start /\ pool = 1 /\ left = 0
  /\ \E c \in SeriesInputs, n \in SentimentInputs :
       calc = [NoCalc EXCEPT !.pc = "input", !.closes = c, !.sentiments = n]

\* compute_score_from_series on the input: the returned dict (or the
\* exception), and its local turnaround_bonus
ScoreSeries ==
  /\ calc.pc = "input" /\ calc.series = <<>>
  /\ calc' =
       LET p == series_stats(calc.closes)
           n == news_stats(calc.sentiments)
           r == compute_score_from_series(UNIVERSE[1], p, n)
       IN [calc EXCEPT !.series =
             <<[ok |-> r.ok, score |-> r.score,
                bonus |-> IF r.ok THEN turnaround_bonus(p, n) ELSE 0]>>]
  /\ UNCHANGED <<cache, th, clock, left, pool, NEWSAPI_KEY, REFRESH_TOKEN, db, job>>

\* the loop body of compute_scores on the input: the DailyScore row (none for
\* a short history), and its local turnaround_bonus
ScoreStored ==
  /\ calc.pc = "input" /\ calc.stored = <<>>
  /\ calc' =
       LET row == score_row(UNIVERSE[1], 1, calc.closes, calc.sentiments)
       IN [calc EXCEPT !.stored =
             <<[row |-> row,
                bonus |-> IF row = <<>> THEN 0
                          ELSE turnaround_bonus(stored_stats(calc.closes),
                                                news_stats(calc.sentiments))]>>]
  /\ UNCHANGED <<cache, th, clock, left, pool, NEWSAPI_KEY, REFRESH_TOKEN, db, job>>

NextScore == ScoreSeries \/ ScoreStored

(***************************************************************************)
(* The rows fetch_yahoo_prices makes of a chart payload.                   *)
(***************************************************************************)
\* the timestamps of the payload (seconds): midnight and noon of day 0, then
\* the next two midnights
Timestamps == {0, 43200, 86400, 172800}

\* a bar of the payload: its timestamp and its close, None (<<>>) or <<c>>
PayloadBars == {[ts |-> t, close |-> c] : t \in Timestamps, c \in {<<>>, <<100>>}}

\* the payloads: 1..MaxBars bars in the order upstream sent them
Payloads ==
  UNION {[1..k -> PayloadBars] : k \in 1..MaxBars}

\* dt.datetime.utcfromtimestamp(ts).date(), as the number of the day
utc_date(ts) == ts \div 86400

\* for i in range(len(ts)): a bar without close is skipped, else a row
RECURSIVE payload_rows(_)
payload_rows(bars) ==
  IF bars = <<>> THEN <<>>
  ELSE (IF Head(bars).close = <<>>
          THEN <<>>
          ELSE <<[date |-> utc_date(Head(bars).ts), close |-> Head(bars).close[1],
                  volume |-> 0]>>)
       \o payload_rows(Tail(bars))

\* if len(rows) > days: rows = rows[-days:]
last_rows(rows, days) ==
  IF Len(rows) > days THEN SubSeq(rows, Len(rows) - days + 1, Len(rows)) ELSE rows

\* a payload is handed to fetch_yahoo_prices
InitFetch ==
  /\ Start /\ pool = 1 /\ left = 0
  /\ \E bars \in Payloads, d \in {2, 30} :
       calc = [NoCalc EXCEPT !.pc = "payload", !.payload = bars, !.days = d]

\* fetch_yahoo_prices from the row loop on: the prices it returns
FetchRows ==
  /\ calc.pc = "payload"
  /\ calc' = [calc EXCEPT !.pc = "rows",
                          !.rows = last_rows(payload_rows(calc.payload), calc.days)]
  /\ UNCHANGED <<cache, th, clock, left, pool, NEWSAPI_KEY, REFRESH_TOKEN, db, job>>

NextFetch == FetchRows

(***************************************************************************)
(* The scoring job (src/score.py).                                         *)
(***************************************************************************)
\* the dates the job is run for
ScoreDates == {1, 2}

\* what the price query and the news query of a ticker return
StoredCloses == { ClosesOf(MIN_CLOSES - 1, 200, <<200, 200>>),
                  ClosesOf(MIN_CLOSES, 200, <<150, 199>>) }
StoredSentiments == { <<>>, <<0, 0>> }

\* a commit that does not meet the unique constraint
commit_score_unchecked(rows, rec) == rows \cup {rec}

\* db.add(score_row); db.commit(), except IntegrityError: db.rollback() under
\* the unique constraint uq_score_ticker_date
commit_score(rows, rec) ==
  IF \E r \in rows : r.ticker = rec.ticker /\ r.date = rec.date
    THEN rows
    ELSE rows \cup {rec}

\* the scoring job runs while the API and the ingestion are idle
InitScoreJob == Boot /\ pool = 1 /\ left = MaxScoreRuns

\* compute_scores is started for a date
compute_scores ==
  \E d \in ScoreDates :
    /\ job.pc \in {"idle", "done", "raised"}
    /\ left > 0
    /\ left' = left - 1
    /\ job' = IF Len(UNIVERSE) = 0
                THEN [NoJob EXCEPT !.pc = "done", !.date = d]
                ELSE [NoJob EXCEPT !.pc = "scoring", !.date = d, !.i = 1]
    /\ UNCHANGED <<cache, th, clock, pool, NEWSAPI_KEY, REFRESH_TOKEN, db, calc>>

\* one round of for ticker in UNIVERSE: the queries, the score, the commit
ScoreTicker ==
  \E closes \in StoredCloses, sentiments \in StoredSentiments :
    LET ticker == UNIVERSE[job.i]
        row == score_row(ticker, job.date, closes, sentiments)
        scores == IF row = <<>> THEN db.scores ELSE commit_score(db.scores, row[1])
    IN /\ job.pc = "scoring"
       /\ db' = [db EXCEPT !.scores = scores]
       /\ job' = [job EXCEPT
                    !.log = Append(@, IF row = <<>> THEN "short"
                                      ELSE IF scores = db.scores THEN "kept"
                                      ELSE "added"),
                    !.i = IF job.i < Len(UNIVERSE) THEN @ + 1 ELSE @,
                    !.pc = IF job.i < Len(UNIVERSE) THEN "scoring" ELSE "done"]
       /\ UNCHANGED <<cache, th, clock, left, pool, NEWSAPI_KEY, REFRESH_TOKEN, calc>>

NextScoreJob == compute_scores \/ ScoreTicker

NextIngest == ingest_prices \/ Download \/ StoreChunk

\* every route, the requests served one after the other
Spec == Init /\ [][Next]_vars

\* watchlist requests only, one after the other
SpecBuild == InitBuild /\ [][NextBuild]_vars

\* price and news requests only, one after the other
SpecReads == InitReads /\ [][NextReads]_vars

\* news requests, one after the other, NewsAPI failing with a status or up
SpecOutage == InitOutage /\ [][NextOutage]_vars

\* a burst of overlapping requests within one unit of the clock, upstream up
SpecPool == InitPool /\ [][NextPool]_vars

\* repeated runs of the price ingestion
SpecIngest == InitIngest /\ [][NextIngest]_vars

\* repeated runs of the scoring job
SpecScoreJob == InitScoreJob /\ [][NextScoreJob]_vars

\* one chart payload turned into rows by fetch_yahoo_prices
SpecFetch == InitFetch /\ [][NextFetch]_vars

\* one input scored by compute_score_from_series and by compute_scores
SpecScore == InitScore /\ [][NextScore]_vars

(***************************************************************************)
(* Properties.                                                             *)
(***************************************************************************)
\* thread p takes a step of its own (the marks another thread's step leaves
\* on it are not steps of p)
Steps(p) == [th'[p] EXCEPT !.stale = th[p].stale, !.quiet = th[p].quiet] # th[p]

\* thread p holds a successful response of the given kind
Answered(p, kind) ==
  th[p].pc = "done" /\ th[p].resp.status = 200 /\ th[p].resp.kind = kind

\* what get_prices_cached / get_news_cached handed to a route
PricesOf(t) == t.resp.body.prices
NewsOf(t) == t.resp.body.items

\* a cached read that finds an entry not older than the TTL returns it, does
\* not call upstream and leaves the cache alone; one that finds an older
\* entry calls upstream
C1_WithinTtl(p) ==
  /\ (th[p].pc = "p_check" /\ Steps(p) /\ PriceKey(th[p]) \in DOMAIN cache.prices) =>
       LET e == cache.prices[PriceKey(th[p])]
       IN IF clock - e.ts <= CACHE_TTL_SEC
            THEN /\ th'[p].pc # "p_fetch" /\ cache' = cache
                 /\ IF th[p].op = "company" THEN PricesOf(th'[p]) = e.data
                                            ELSE th'[p].p = e.data
            ELSE th'[p].pc = "p_fetch" /\ th'[p].now = clock
  /\ (th[p].pc = "n_check" /\ Steps(p) /\ NewsKey(th[p]) \in DOMAIN cache.news) =>
       LET e == cache.news[NewsKey(th[p])]
       IN IF clock - e.ts <= CACHE_TTL_SEC
            THEN /\ th'[p].pc # "n_fetch" /\ cache' = cache
                 /\ th[p].op = "news" => NewsOf(th'[p]) = e.data
            ELSE th'[p].pc = "n_fetch" /\ th'[p].now = clock

\* thread p is in a call that found an entry older than the TTL
PriceExpired(p) ==
  /\ th[p].pc \in {"p_fetch", "p_store"}
  /\ PriceKey(th[p]) \in DOMAIN cache.prices
  /\ th[p].now - cache.prices[PriceKey(th[p])].ts > CACHE_TTL_SEC
NewsExpired(p) ==
  /\ th[p].pc \in {"n_fetch", "n_store"}
  /\ NewsKey(th[p]) \in DOMAIN cache.news
  /\ th[p].now - cache.news[NewsKey(th[p])].ts > CACHE_TTL_SEC

\* the entry of the key of thread p carries the time of p's call
PriceReplaced(p) ==
  /\ PriceKey(th[p]) \in DOMAIN cache'.prices
  /\ cache'.prices[PriceKey(th[p])].ts = th[p].now
NewsReplaced(p) ==
  /\ NewsKey(th[p]) \in DOMAIN cache'.news
  /\ cache'.news[NewsKey(th[p])].ts = th[p].now

\* C1 as stated: within the TTL the stored value is returned without an
\* upstream call, and the first call after the TTL calls upstream again and
\* replaces the entry (whatever the upstream call does)
C1_Original ==
  [][\A p \in Threads :
       /\ C1_WithinTtl(p)
       /\ (PriceExpired(p) /\ th'[p].pc \notin {"p_fetch", "p_store"})
            => PriceReplaced(p)
       /\ (NewsExpired(p) /\ th'[p].pc \notin {"n_fetch", "n_store"})
            => NewsReplaced(p)]_vars

\* C1 amended: within the TTL the stored value is returned without an upstream
\* call; the first call after the TTL calls upstream again and, when the
\* upstream call returns a value, replaces the entry with that value and the
\* time of the call (an upstream call that raises leaves the entry as it was)
C1_TtlReadThrough ==
  [][\A p \in Threads :
       /\ C1_WithinTtl(p)
       /\ (th[p].pc = "p_store" /\ Steps(p)) =>
            /\ PriceReplaced(p)
            /\ cache'.prices[PriceKey(th[p])].data = th[p].data_p
       /\ (th[p].pc = "n_store" /\ Steps(p)) =>
            /\ NewsReplaced(p)
            /\ cache'.news[NewsKey(th[p])].data = th[p].data_n
       /\ (PriceExpired(p) /\ th[p].pc = "p_fetch" /\ th'[p].pc # "p_store"
             /\ Steps(p)) => cache' = cache
       /\ (NewsExpired(p) /\ th[p].pc = "n_fetch" /\ th'[p].pc # "n_store"
             /\ Steps(p)) => cache' = cache]_vars

\* a call that found an expired entry has fetched and is about to replace it
C1_Witness ==
  \E p \in Threads : PriceExpired(p) /\ th[p].pc = "p_store"

\* C2: when refresh completes and no other request was in flight while it
\* ran, the price cache, the news cache and the watchlist cache are empty;
\* and a read that finds no entry goes upstream (builds), whatever the age
\* of what was stored before
C2_RefreshEmptiesCaches ==
  [][\A p \in Threads :
       /\ (th[p].pc = "rf_news" /\ th'[p].pc = "done" /\ th[p].quiet) =>
            /\ cache'.watchlist = <<>>
            /\ DOMAIN cache'.prices = {}
            /\ DOMAIN cache'.news = {}
       /\ (th[p].pc = "p_check" /\ Steps(p)
             /\ PriceKey(th[p]) \notin DOMAIN cache.prices) => th'[p].pc = "p_fetch"
       /\ (th[p].pc = "n_check" /\ Steps(p)
             /\ NewsKey(th[p]) \notin DOMAIN cache.news) => th'[p].pc = "n_fetch"
       /\ (th[p].pc = "wl_check" /\ Steps(p) /\ cache.watchlist = <<>>) =>
            th'[p].pc \in {"p_check", "wl_set"}]_vars

\* a refresh that ran alone is at its last statement with news still cached
C2_Witness ==
  \E p \in Threads :
    /\ th[p].pc = "rf_news" /\ th[p].quiet
    /\ DOMAIN cache.news # {}
    /\ \E q \in Threads \ {p} : th[q].pc = "done"

\* C3: every cached read returns a value fetched or built for the parameters
\* of the request (a watchlist response was built with exactly the limit,
\* news_limit, news_hours_back and price_days of the request)
C3_KeyedByParameters ==
  \A p \in Threads :
    /\ Answered(p, "company") =>
         /\ PricesOf(th[p]).ticker = th[p].args.ticker
         /\ PricesOf(th[p]).days = th[p].args.days
    /\ Answered(p, "news") =>
         /\ NewsOf(th[p]).ticker = th[p].args.ticker
         /\ NewsOf(th[p]).limit = th[p].args.news_limit
         /\ NewsOf(th[p]).hours = th[p].args.hours
    /\ Answered(p, "watchlist") => th[p].resp.body.built = WlParams(th[p].args)

\* C4: every price series and news list a response is derived from was
\* fetched at most CACHE_TTL_SEC before the response
C4_StalenessWithinTtl ==
  \A p \in Threads :
    /\ Answered(p, "company") =>
         th[p].resp.at - PricesOf(th[p]).at <= CACHE_TTL_SEC
    /\ Answered(p, "news") =>
         th[p].resp.at - NewsOf(th[p]).at <= CACHE_TTL_SEC
    /\ Answered(p, "watchlist") =>
         \A k \in DOMAIN th[p].resp.body.items :
           /\ th[p].resp.at - th[p].resp.body.items[k].p_at <= CACHE_TTL_SEC
           /\ th[p].resp.at - th[p].resp.body.items[k].n_at <= CACHE_TTL_SEC

\* the tickers of the universe whose round of the loop succeeded, in order
RECURSIVE OkTickers(_, _)
OkTickers(log, k) ==
  IF k > Len(log) THEN <<>>
  ELSE (IF log[k] = "ok" THEN <<UNIVERSE[k]>> ELSE <<>>) \o OkTickers(log, k + 1)

\* C5: whatever tickers fail, the build does not raise, every ticker is
\* processed, and before truncation the items are exactly the tickers that
\* did not fail, one item each
C5_FailuresIsolated ==
  \A p \in Threads :
    /\ (th[p].op = "watchlist" /\ th[p].pc = "done") => th[p].resp.status = 200
    /\ (th[p].op = "watchlist" /\ th[p].pc \in {"p_check", "p_fetch", "p_store",
                                               "n_check", "n_fetch", "n_store"}) =>
         /\ Len(th[p].log) = th[p].i - 1
         /\ th[p].i <= NumTickers
    /\ th[p].pc = "wl_set" =>
         /\ Len(th[p].log) = NumTickers
         /\ [k \in DOMAIN th[p].items |-> th[p].items[k].ticker]
              = OkTickers(th[p].log, 1)

\* a build is over in which a ticker failed and a later one was scored
C5_Witness ==
  \E p \in Threads :
    /\ th[p].pc = "wl_set"
    /\ \E j, k \in DOMAIN th[p].log :
         j < k /\ th[p].log[j] = "fail" /\ th[p].log[k] = "ok"

\* the place of a ticker in the universe
Place(tk) == CHOOSE k \in DOMAIN UNIVERSE : UNIVERSE[k] = tk

\* C6: the items of every watchlist response are ordered by final_score
\* descending, equal scores in universe order, at most limit items
C6_RankedAndTruncated ==
  \A p \in Threads :
    Answered(p, "watchlist") =>
      LET items == th[p].resp.body.items
      IN /\ Len(items) <= th[p].args.limit
         /\ \A j, k \in DOMAIN items :
              j < k =>
                /\ items[j].final_score >= items[k].final_score
                /\ items[j].final_score = items[k].final_score
                     => Place(items[j].ticker) < Place(items[k].ticker)

\* a response in which the sort moved a later ticker in front of an earlier one
C6_Witness ==
  \E p \in Threads :
    /\ Answered(p, "watchlist")
    /\ \E j, k \in DOMAIN th[p].resp.body.items :
         /\ j < k
         /\ Place(th[p].resp.body.items[j].ticker)
              > Place(th[p].resp.body.items[k].ticker)

\* C7: every watchlist result reports attempted, succeeded and failed with
\* attempted = size of the universe = succeeded + failed
C7_ReportsCounts ==
  \A p \in Threads :
    Answered(p, "watchlist") =>
      LET body == th[p].resp.body
      IN /\ {"attempted", "succeeded", "failed"} \subseteq DOMAIN body
         /\ body.attempted = Len(UNIVERSE)
         /\ body.attempted = body.succeeded + body.failed

\* C8: the result of a build over a non-empty universe in which every ticker
\* failed differs from the result of a build over an empty universe
C8_NoDataDistinct ==
  \A p \in Threads :
    (/\ Answered(p, "watchlist") /\ th[p].resp.src = "build"
     /\ Len(UNIVERSE) > 0 /\ th[p].args.limit > 0
     /\ th[p].resp.body.items = <<>>)
      => th[p].resp.body # build_result(<<>>, th[p].args)

\* C9: in a build, a ticker whose prices came with at least 25 closes ends
\* its round with a scored item, news_impact 0 when the news fetch failed
C9_NewsFailureSoft ==
  [][\A p \in Threads :
       (/\ th[p].op = "watchlist"
        /\ th[p].pc \in {"n_check", "n_fetch", "n_store"}
        /\ th[p].p.n >= MIN_CLOSES
        /\ th'[p].pc \notin {"n_check", "n_fetch", "n_store"} \/ th'[p].i # th[p].i)
         => /\ Len(th'[p].items) = Len(th[p].items) + 1
            /\ th'[p].items[Len(th'[p].items)].ticker = CurTicker(th[p])
            /\ th[p].pc = "n_fetch"
                 => th'[p].items[Len(th'[p].items)].news_impact = 0]_vars

\* thread p is between the miss and the end of a get-or-fetch
InPriceFetch(p) == th[p].pc \in {"p_fetch", "p_store"}
InNewsFetch(p) == th[p].pc \in {"n_fetch", "n_store"}
InBuild(p) ==
  th[p].op = "watchlist" /\ th[p].pc \notin {"idle", "done", "wl_check"}

\* C10: no two requests are at the same time in the upstream fetch (or the
\* build) for the same key
C10_FetchOncePerKey ==
  \A p, q \in Threads :
    p # q =>
      /\ ~(InPriceFetch(p) /\ InPriceFetch(q) /\ PriceKey(th[p]) = PriceKey(th[q]))
      /\ ~(InNewsFetch(p) /\ InNewsFetch(q) /\ NewsKey(th[p]) = NewsKey(th[q]))
      /\ ~(InBuild(p) /\ InBuild(q))

\* no call is between its two writes of the watchlist and its timestamp
PairSettled == \A p \in Threads : th[p].pc \notin {"wl_ts", "rf_ts"}

\* C11: every price and news entry holds a value with the timestamp of the
\* call that fetched it, and, whenever no call is between its two writes, the
\* cached watchlist carries the timestamp written by the call that built it
\* (two writes by different threads are writes of different calls)
C11_NoTornPair ==
  /\ \A k \in DOMAIN cache.prices : cache.prices[k].ts = cache.prices[k].data.at
  /\ \A k \in DOMAIN cache.news : cache.news[k].ts = cache.news[k].data.at
  /\ (PairSettled /\ cache.watchlist # <<>>)
       => cache.watchlist_ts_by = cache.watchlist_by

\* both implementations have scored the input; the outcome of each
BothScored == calc.series # <<>> /\ calc.stored # <<>>
SeriesOut == calc.series[1]
StoredOut == calc.stored[1]

\* the input has r5 < 0, r20 < 0 and news_impact >= 8.0
TurnaroundInput ==
  /\ Len(calc.closes) >= MIN_CLOSES
  /\ ret(calc.closes, 5) < 0 /\ ret(calc.closes, 20) < 0
  /\ news_impact(news_stats(calc.sentiments)) >= 80

\* C13: an input with r5 < 0, r20 < 0 and news_impact >= 8.0 is labelled
\* "Turnaround Watch" by compute_score_from_series and by compute_scores,
\* whatever its risk, final_score and momentum, and the two implementations
\* give every input the same label
C13_TurnaroundPrecedence ==
  (BothScored /\ SeriesOut.ok) =>
    /\ TurnaroundInput =>
         /\ SeriesOut.score.label = "Turnaround Watch"
         /\ StoredOut.row[1].label = "Turnaround Watch"
    /\ SeriesOut.score.label = StoredOut.row[1].label

\* the chunks of the running job
Chunks == chunked(UNIVERSE, job.chunk_size)

\* the attempt that ends in this step was rate limited
RateLimited == job.pc = "download" /\ job'.df = <<>> /\ job'.pc # "raised"

\* C12: a chunk is downloaded at most max_retries times; the attempt-th rate
\* limited attempt is followed by a wait of sleep_sec * attempt * 3; a chunk
\* whose max_retries attempts were all rate limited is abandoned without an
\* exception and without a row written, and the job goes on with the next
\* chunk, so that a job that ends normally has gone through every chunk
C12_RetryBackoff ==
  [][/\ (job.pc = "download" /\ job' # job) =>
          /\ job'.tries = job.attempt /\ job'.tries <= job.max_retries
          /\ RateLimited =>
               /\ job'.wait = job.sleep_sec * job.attempt * 3
               /\ db' = db
               /\ IF job.attempt < job.max_retries
                    THEN job'.pc = "download" /\ job'.attempt = job.attempt + 1
                    ELSE job'.pc = "store"
     /\ (job.pc = "store" /\ job.df = <<>> /\ job' # job) =>
          /\ job.tries = job.max_retries
          /\ db' = db
          /\ IF job.g < Len(Chunks)
               THEN job'.pc = "download" /\ job'.g = job.g + 1 /\ job'.tries = 0
               ELSE job'.pc = "done"
     /\ job'.pc = "done" => Len(job'.log) = Len(chunked(UNIVERSE, job'.chunk_size))
    ]_vars

\* a job is over whose first chunk was abandoned after more than one rate
\* limited attempt and whose next chunk was stored: the first ticker has no
\* row, the second one has
C12_Witness ==
  /\ job.pc = "done" /\ job.max_retries > 1 /\ Len(job.log) > 1
  /\ job.log[1] = "abandoned" /\ job.log[2] = "stored"
  /\ \A r \in db.prices : r.ticker # UNIVERSE[1]
  /\ \E r \in db.prices : r.ticker = UNIVERSE[2]

\* C14: after a chunk is stored, every bar of the downloaded frame has, for
\* every ticker of the chunk, exactly one stored row with the date of the bar,
\* and that row carries the close and the volume of the bar, also when a row
\* for that ticker and date was stored before
C14_LastWriteWins ==
  [][(job.pc = "store" /\ job.df # <<>> /\ job' # job) =>
       \A k \in DOMAIN Group(job), i \in DOMAIN job.df[1] :
         LET bar == job.df[1][i]
             rows == {r \in db'.prices :
                        r.ticker = Group(job)[k] /\ r.date = bar.date}
         IN /\ Cardinality(rows) = 1
            /\ \A r \in rows : r.close = bar.close /\ r.volume = bar.volume]_vars

\* the rows stored for a ticker and a date
ScoresOf(rows, ticker, date) == {r \in rows : r.ticker = ticker /\ r.date = date}

\* C15: the store never holds two DailyScore rows for one ticker and date; a
\* round of compute_scores for a ticker that already has a row for the date
\* leaves the stored rows as they are and goes on to the next ticker, so that
\* every run ends having gone through the whole universe
C15_OneScorePerTickerDate ==
  [][/\ \A r1, r2 \in db'.scores :
          (r1.ticker = r2.ticker /\ r1.date = r2.date) => r1 = r2
     /\ (/\ job.pc = "scoring" /\ job' # job
         /\ ScoresOf(db.scores, UNIVERSE[job.i], job.date) # {}) =>
          /\ db' = db
          /\ IF job.i < Len(UNIVERSE)
               THEN job'.pc = "scoring" /\ job'.i = job.i + 1
               ELSE job'.pc = "done"
     /\ job'.pc = "done" => Len(job'.log) = Len(UNIVERSE)]_vars

\* a run is over that found the row of its first ticker already stored and
\* stored a row for a later ticker
C15_Witness ==
  /\ job.pc = "done" /\ Len(job.log) > 1
  /\ job.log[1] = "kept" /\ job.log[2] = "added"

\* C16: with a secret configured, a refresh request whose token is absent or
\* is not exactly the secret is answered 401 and no step of it changes the
\* cache
C16_ExactTokenGate ==
  [][\A p \in Threads :
       (th'[p].op = "refresh" /\ th'[p].args.inexact /\ Steps(p)) =>
         /\ cache' = cache
         /\ th'[p].pc = "done" /\ th'[p].resp.status = 401]_vars

\* C17: every successful response of every route carries the caution block
C17_DisclaimerEverywhere ==
  \A p \in Threads :
    (th[p].pc = "done" /\ th[p].resp.status = 200) =>
      /\ "caution" \in DOMAIN th[p].resp.body
      /\ th[p].resp.body.caution = TRUE

\* C18: the rows fetch_yahoo_prices returns have strictly increasing dates,
\* whatever the timestamps of the payload, and there is one row for every bar
\* with a close among the last ones (bars without a close are skipped)
C18_StrictlyIncreasingDates ==
  calc.pc = "rows" =>
    /\ \A i, j \in DOMAIN calc.rows : i < j => calc.rows[i].date < calc.rows[j].date
    /\ Len(calc.rows) <= calc.days
    /\ Len(calc.rows) <= Cardinality({k \in DOMAIN calc.payload :
                                        calc.payload[k].close # <<>>})

\* the one-day returns of the input are not all equal
ReturnsDiffer ==
  \E i, j \in 2..Len(calc.closes) :
    calc.closes[i] * calc.closes[j - 1] # calc.closes[j] * calc.closes[i - 1]

\* C19: for an input of 25 closes or more whose one-day returns are not all
\* equal, the risk either implementation computes is greater than 0, and it is
\* the sample standard deviation of the last (up to 30) one-day returns; no
\* risk is negative
C19_RiskSampleStd ==
  (BothScored /\ SeriesOut.ok) =>
    /\ SeriesOut.score.risk >= 0 /\ StoredOut.row[1].risk >= 0
    /\ ReturnsDiffer => (SeriesOut.score.risk > 0 /\ StoredOut.row[1].risk > 0)
    /\ Len(calc.closes) >= RISK_CLOSES =>
         /\ SeriesOut.score.risk = sample_std(rets_1d(calc.closes))
         /\ StoredOut.row[1].risk = sample_std(rets_1d(calc.closes))

\* the bonus the claim describes, from the input
ClaimedBonus ==
  LET r1 == ret(calc.closes, 1)
      r5 == ret(calc.closes, 5)
      r20 == ret(calc.closes, 20)
      ni == news_impact(news_stats(calc.sentiments))
  IN IF r5 < 0 /\ r20 < 0 /\ ni >= 80
       THEN Min(1200, 6 * ni) + (IF r1 > 0 \/ r5 > -100 THEN 300 ELSE 0)
       ELSE 0

\* C20: in both implementations the turnaround bonus is 0 unless r5 < 0,
\* r20 < 0 and news_impact >= 8.0 (so it is 0 at r5 = 0 and for an empty news
\* list, whose news_impact is 0); when awarded it is min(12, 0.6 *
\* news_impact), plus 3 if r1 > 0 or r5 > -0.01; it never exceeds 15
C20_TurnaroundBonus ==
  (BothScored /\ SeriesOut.ok) =>
    /\ SeriesOut.bonus = ClaimedBonus /\ StoredOut.bonus = ClaimedBonus
    /\ SeriesOut.bonus <= 1500 /\ SeriesOut.bonus >= 0
    /\ calc.sentiments = <<>> =>
         /\ SeriesOut.score.news_impact = 0 /\ StoredOut.row[1].news_impact = 0
         /\ SeriesOut.bonus = 0
    /\ SeriesOut.score.final_score =
         final_score(SeriesOut.score.news_impact, SeriesOut.score.momentum,
                     SeriesOut.score.risk, ClaimedBonus)

\* the bonus was awarded with the extra 3 for an input whose r1 is not
\* positive and whose r5 is between -0.01 and 0
C20_Witness ==
  /\ BothScored /\ SeriesOut.ok
  /\ ret(calc.closes, 1) <= 0 /\ ret(calc.closes, 5) > -100
  /\ SeriesOut.bonus > 300

\* C21: a call whose upstream fetch (or watchlist build) started before a
\* refresh returned does not install its result in the cache afterwards, so
\* that no read after the refresh is served data from before it
C21_NoReinstallAfterRefresh ==
  [][\A p \in Threads :
       (/\ th[p].stale /\ Steps(p)
        /\ th[p].op \in {"company", "news"} \/ th[p].pc \in {"wl_set", "wl_ts"})
         => cache' = cache]_vars

\* the upstream price call of thread p ends without data to store
PriceFetchFails(p) ==
  th[p].pc = "p_fetch" /\ Steps(p) /\ th'[p].pc # "p_store"

\* C22: a price fetch that fails leaves the price cache exactly as it was and
\* the route answers with the error, not with the entry (expired or not) of
\* the key; the key has no live entry afterwards, and a call that finds no
\* live entry for its key goes upstream
C22_FailedFetchNotCached ==
  [][\A p \in Threads :
       /\ PriceFetchFails(p) =>
            /\ cache' = cache
            /\ ~IsLive(cache'.prices, PriceKey(th[p]), clock')
            /\ th[p].op # "watchlist" =>
                 /\ th'[p].pc = "done" /\ th'[p].resp.kind = "error"
                 /\ th'[p].resp.status # 200
       /\ (th[p].pc = "p_check" /\ Steps(p)
             /\ ~IsLive(cache.prices, PriceKey(th[p]), clock)) =>
            th'[p].pc = "p_fetch"]_vars

\* a price request was answered with the error of its fetch while the cache
\* still holds the expired entry of its key
C22_Witness ==
  \E p \in Threads :
    /\ th[p].op = "company" /\ th[p].pc = "done"
    /\ th[p].resp.kind = "error" /\ th[p].resp.body.detail = "price"
    /\ PriceKey(th[p]) \in DOMAIN cache.prices
    /\ clock - cache.prices[PriceKey(th[p])].ts > CACHE_TTL_SEC

\* thread p is served the cached watchlist by its next step
ServedCachedWatchlist(p) ==
  th[p].pc = "wl_check" /\ Steps(p) /\ WatchlistLive(cache, clock)

\* C23: a watchlist read served from the cache leaves the cache as it was and
\* returns the first limit items of the cached list (all of them, in the
\* cached order, when limit is not smaller than their number); the cached
\* list changes only when a build stores its result and the timestamp only
\* when a build stores its time
C23_CachedReadLeavesCache ==
  [][/\ \A p \in Threads :
          ServedCachedWatchlist(p) =>
            LET cached == cache.watchlist[1].items
                items == th'[p].resp.body.items
            IN /\ cache' = cache
               /\ th'[p].pc = "done" /\ th'[p].resp.src = "cache"
               /\ items = SubSeq(cached, 1, Min(th[p].args.limit, Len(cached)))
               /\ th[p].args.limit >= Len(cached) => items = cached
     /\ cache'.watchlist # cache.watchlist =>
          \E p \in Threads : th[p].pc = "wl_set" /\ th'[p].pc = "wl_ts"
     /\ cache'.watchlist_ts # cache.watchlist_ts =>
          \E p \in Threads : th[p].pc = "wl_ts" /\ th'[p].pc = "done"]_vars

\* a request with limit 1 was served the first item of a cached watchlist
\* of two items
C23_Witness ==
  \E p \in Threads :
    /\ Answered(p, "watchlist") /\ th[p].resp.src = "cache"
    /\ cache.watchlist # <<>>
    /\ th[p].args.limit < Len(cache.watchlist[1].items)
    /\ Len(th[p].resp.body.items) = th[p].args.limit

\* the news entry of the key of thread p, and whether it is within its TTL
NewsEntry(p) == cache.news[NewsKey(th[p])]
NewsWithinTtl(p) ==
  NewsKey(th[p]) \in DOMAIN cache.news /\ clock - NewsEntry(p).ts <= CACHE_TTL_SEC

\* C24: with the key set and NewsAPI answering a non-200 status or articles,
\* every fetch returns a list (empty on the error status) that is stored
\* under its key with the time of the call; a call that finds an entry
\* within CACHE_TTL_SEC returns its list, empty or not, without a fetch and
\* without touching the cache; a fetch starts only when the key has no entry
\* or an expired one
C24_DegradedNewsCached ==
  [][\A p \in Threads :
       /\ (th[p].pc = "n_fetch" /\ Steps(p)) =>
            th'[p].pc = "n_store"
       /\ (th[p].pc = "n_store" /\ Steps(p)) =>
            /\ NewsKey(th[p]) \in DOMAIN cache'.news
            /\ cache'.news[NewsKey(th[p])] = [ts |-> th[p].now, data |-> th[p].data_n]
       /\ (th[p].pc = "n_check" /\ Steps(p) /\ NewsWithinTtl(p)) =>
            /\ th'[p].pc = "done" /\ th'[p].resp.src = "cache"
            /\ NewsOf(th'[p]) = NewsEntry(p).data
            /\ cache' = cache
       /\ (th[p].pc = "n_check" /\ th'[p].pc = "n_fetch") => ~NewsWithinTtl(p)]_vars

\* a news request was served, later than the failed fetch but within the
\* TTL, the empty list cached from an error status of NewsAPI
C24_Witness ==
  \E p \in Threads :
    /\ Answered(p, "news") /\ th[p].resp.src = "cache"
    /\ NewsOf(th[p]).cnt = 0
    /\ NewsWithinTtl(p) /\ NewsEntry(p).data = NewsOf(th[p])
    /\ th[p].resp.at > NewsEntry(p).ts
====
